---------------------------- MODULE Spec2Model ----------------------------
(***************************************************************************)
(* Model of the design-assistant chat application (src/chatbot_app.py,     *)
(* src/gemini_helpers.py): the session state kept by Streamlit, the        *)
(* decision router handle_ai_decision, and the two branches of the main    *)
(* turn handler (identifier collection and free-form dispatch).            *)
(*                                                                         *)
(* Conventions.  Python None is the string "None" where the value is       *)
(* otherwise a string (a template uid, an action).  A Python dict is a     *)
(* function whose DOMAIN is the set of keys present.  A user prompt is a   *)
(* sequence of characters, so that len, split, `' ' in` and                *)
(* re.findall(r'\d+') are computed on it.  An assistant text is a sequence *)
(* of text fragments; string concatenation is \o and the substring test    *)
(* for the trigger phrase looks for the fragment that holds the phrase.    *)
(*                                                                         *)
(* The application never reads a message's content back from the history   *)
(* (it is displayed and handed to the oracle, whose answer is free), so    *)
(* `messages` keeps the role of every message, and `appended` keeps the    *)
(* messages of the last script run in full.                                *)
(***************************************************************************)
EXTENDS Integers, Sequences, FiniteSets, TLC

VARIABLES
    messages,                \* st.session_state.messages: each message's role
    design_context,          \* st.session_state.design_context
    staged_file,             \* st.session_state.staged_file
    awaiting_mls_id,         \* st.session_state.awaiting_mls_id
    initial_request_prompt,  \* st.session_state.initial_request_prompt
    prompt,                  \* the chat input of the last script run
    response_text,           \* the reply computed by the last script run
    calls,                   \* the calls the last script run made, in order
    shown,                   \* the texts with which the last script run
                             \* answered its chat input: what lines 134-276
                             \* display in the assistant's chat message with
                             \* st.markdown, st.info, st.warning and st.error,
                             \* in order.  Not kept: the redraw of the history
                             \* (lines 125-127), the echo of the chat input
                             \* (line 130), the typing indicator line 234
                             \* puts in the placeholder before the turn
                             \* computes anything, spinners, the debug
                             \* expander of lines 146-147 and the sidebar's
                             \* st.success (line 123).  A run that stops by
                             \* an exception therefore has shown = <<>> when
                             \* it displayed the history, the chat input and,
                             \* in the free-form branch, the typing indicator,
                             \* and nothing else.
    appended,                \* the messages the last script run appended
    pc                       \* "ran": a script run just ended; "crashed": it
                             \* ended by an uncaught exception; "idle": waiting

vars == <<messages, design_context, staged_file, awaiting_mls_id,
          initial_request_prompt, prompt, response_text, calls, shown,
          appended, pc>>

None == "None"

\* Python truthiness of a string-or-None value.
Truthy(x) == x # None /\ x # ""

\* dict.get(key, default)
Get(d, k, default) == IF k \in DOMAIN d THEN d[k] ELSE default

-----------------------------------------------------------------------------
(* Bounds of the model. *)

\* user turns explored from the initial state
MaxTurns == 3
\* longest modification list an oracle hands back in one call
MaxMods == 2

-----------------------------------------------------------------------------
(* Fixed texts of the application. *)

TRIGGER_PHRASE == "can you provide the MLS ID"
GREETING == <<"Hello! I'm your design assistant. Just tell me what you need to create.">>
DEFAULT_RESPONSE == <<"I'm not sure how to proceed.">>
REFUSAL == <<"I can't generate an image yet. Please describe the design you want first.">>
\* the error texts without their leading pictograph
ERR_START == <<"**Error:** Failed to start image generation.">>
ERR_RENDER == <<"**Error:** Image generation failed during rendering.">>
SOMETHING_WRONG == <<"I'm sorry, something went wrong. Could you please try rephrasing?">>
CLARIFICATION == <<"I'm sorry, I didn't quite understand. How can I help you create a design?">>
TROUBLE == <<"I'm having trouble connecting right now. Please try again in a moment.">>

\* f"\n\n![Generated Image]({url})"
ImageMarkdown(url) == <<"\n\n![Generated Image](", url, ")">>

\* `phrase in text`
Contains(text, phrase) == \E i \in 1..Len(text) : text[i] = phrase

-----------------------------------------------------------------------------
(* The decision router, handle_ai_decision (src/chatbot_app.py:80-109).    *)

\* current_mods_dict[mod['name']] = mod on an insertion-ordered dict whose
\* values are listed in key order: an existing key keeps its place, a new
\* key goes last.
DictSetMutantAppend(d, mod) == Append(d, mod)
DictSet(d, mod) ==
    IF \E i \in 1..Len(d) : d[i].name = mod.name
    THEN [i \in 1..Len(d) |-> IF d[i].name = mod.name THEN mod ELSE d[i]]
    ELSE Append(d, mod)

\* for mod in mods: d[mod['name']] = dict(mod)
RECURSIVE DictSetAll(_, _)
DictSetAll(d, mods) ==
    IF mods = <<>> THEN d
    ELSE DictSetAll(DictSet(d, Head(mods)), Tail(mods))

\* lines 90-93: the dict built from the current list, updated with the new
\* list, and turned back into the list of its values.
UpsertModifications(current, new) == DictSetAll(DictSetAll(<<>>, current), new)

\* The render service as one run meets it: what create_image returns (None
\* or a job handle) and what poll_for_image then returns (a dict; the empty
\* dict stands for None, both are falsy).
NoImage == [k \in {} |-> None]
RenderFalsy(d) == DOMAIN d = {}

CreateImageCall(uid, mods, r) ==
    [fn |-> "create_image", template_uid |-> uid, modifications |-> mods,
     job |-> r.create]
PollCall(r) == [fn |-> "poll_for_image", job |-> r.create, final_image |-> r.poll]

\* lines 98-108, once trigger_generation is True
GenerateMutantNoRefusal(ctx, text, r) ==
    LET create == CreateImageCall(ctx.template_uid, ctx.modifications, r)
    IN  IF ~Truthy(r.create)
        THEN [response_text |-> ERR_START, calls |-> <<create>>]
        ELSE [response_text |-> ERR_RENDER, calls |-> <<create, PollCall(r)>>]
GenerateMutantSubmitsNothing(ctx, text, r) ==
    IF ~Truthy(ctx.template_uid)
    THEN [response_text |-> REFUSAL, calls |-> <<>>]
    ELSE [response_text |-> ERR_START,
          calls |-> <<CreateImageCall(ctx.template_uid, <<>>, r)>>]
Generate(ctx, text, r) ==
    IF ~Truthy(ctx.template_uid)
    THEN [response_text |-> REFUSAL, calls |-> <<>>]
    ELSE LET create == CreateImageCall(ctx.template_uid, ctx.modifications, r)
         IN  IF ~Truthy(r.create)
             THEN [response_text |-> ERR_START, calls |-> <<create>>]
             ELSE IF ~RenderFalsy(r.poll)
                     /\ Truthy(Get(r.poll, "image_url_png", None))
                  THEN [response_text |-> text \o ImageMarkdown(r.poll.image_url_png),
                        calls |-> <<create, PollCall(r)>>]
                  ELSE [response_text |-> ERR_RENDER,
                        calls |-> <<create, PollCall(r)>>]

\* lines 85-93: the design context after a MODIFY, and whether the change of
\* template asks for a generation.
ModifyTriggersMutantFromUnset(ctx, decision) ==
    LET new_template_uid == Get(decision, "template_uid", None)
    IN  Truthy(new_template_uid) /\ new_template_uid # ctx.template_uid
ModifyTriggers(ctx, decision) ==
    LET new_template_uid == Get(decision, "template_uid", None)
    IN  /\ Truthy(new_template_uid)
        /\ new_template_uid # ctx.template_uid
        /\ ctx.template_uid # None

ModifyContextMutantTakesAny(ctx, decision) ==
    [template_uid |-> Get(decision, "template_uid", None),
     modifications |->
         UpsertModifications(ctx.modifications,
                             Get(decision, "modifications", <<>>))]
ModifyContext(ctx, decision) ==
    LET new_template_uid == Get(decision, "template_uid", None)
        new_mods_from_ai ==
            IF Get(decision, "modifications", <<>>) = <<>> THEN <<>>
            ELSE decision.modifications
    IN  [template_uid |->
             IF Truthy(new_template_uid) /\ new_template_uid # ctx.template_uid
             THEN new_template_uid ELSE ctx.template_uid,
         modifications |-> UpsertModifications(ctx.modifications, new_mods_from_ai)]

EmptyContext == [template_uid |-> None, modifications |-> <<>>]

\* line 96: RESET replaces the design context, whatever it was
ResetContextMutantKeepsMods(ctx) == [ctx EXCEPT !.template_uid = None]
ResetContext(ctx) == [template_uid |-> None, modifications |-> <<>>]

\* line 82: decision.get("response_text", <default>)
ResponseTextOfMutantDefault(decision) == DEFAULT_RESPONSE
ResponseTextOf(decision) == Get(decision, "response_text", DEFAULT_RESPONSE)

\* handle_ai_decision(decision) on design context ctx, with render service r:
\* the design context it leaves, the text it returns, the calls it makes.
HandleAiDecision(ctx, decision, r) ==
    LET action == Get(decision, "action", None)
        text == ResponseTextOf(decision)
        after == IF action = "MODIFY" THEN ModifyContext(ctx, decision) ELSE ctx
        trigger_generation ==
            \/ action = "MODIFY" /\ ModifyTriggers(ctx, decision)
            \/ action = "GENERATE"
    IN  IF action = "CONVERSE"
        THEN [design_context |-> ctx, response_text |-> text, calls |-> <<>>]
        ELSE IF action = "RESET"
        THEN [design_context |-> ResetContext(ctx), response_text |-> text,
              calls |-> <<>>]
        ELSE IF trigger_generation
        THEN LET gen == Generate(after, text, r)
             IN  [design_context |-> after,
                  response_text |-> gen.response_text, calls |-> gen.calls]
        ELSE [design_context |-> after, response_text |-> text, calls |-> <<>>]

-----------------------------------------------------------------------------
(* Strings as character sequences: what the turn handler computes on the   *)
(* user's prompt and on template names.                                    *)

\* The characters of the model are those of U+0000..U+00FF (ISO 8859-1).
\* Of these, str.lower() changes the 26 letters A-Z and the 30 letters
\* U+00C0..U+00DE without U+00D7, each to the one character listed at the
\* same place in LOWER.
UPPER == <<"A","B","C","D","E","F","G","H","I","J","K","L","M",
           "N","O","P","Q","R","S","T","U","V","W","X","Y","Z",
           "À","Á","Â","Ã","Ä","Å","Æ","Ç","È","É","Ê","Ë","Ì",
           "Í","Î","Ï","Ð","Ñ","Ò","Ó","Ô","Õ","Ö","Ø","Ù","Ú",
           "Û","Ü","Ý","Þ">>
LOWER == <<"a","b","c","d","e","f","g","h","i","j","k","l","m",
           "n","o","p","q","r","s","t","u","v","w","x","y","z",
           "à","á","â","ã","ä","å","æ","ç","è","é","ê","ë","ì",
           "í","î","ï","ð","ñ","ò","ó","ô","õ","ö","ø","ù","ú",
           "û","ü","ý","þ">>

\* str.lower() on one character
LowerTable == [c \in {UPPER[i] : i \in 1..Len(UPPER)} |->
                  LOWER[CHOOSE i \in 1..Len(UPPER) : UPPER[i] = c]]
LowerChar(c) == IF c \in DOMAIN LowerTable THEN LowerTable[c] ELSE c
\* str.lower()
Lower(str) == [i \in 1..Len(str) |-> LowerChar(str[i])]

\* `sub in str`
Substring(sub, str) ==
    \E i \in 0..(Len(str) - Len(sub)) :
        \A k \in 1..Len(sub) : str[i + k] = sub[k]

\* the characters on which str.split() splits (str.isspace()): space, the
\* controls U+0009..U+000D and U+001C..U+001F, U+0085 and U+00A0
WHITESPACE == {"\t", "\n", "", "\f", "\r", "", "", "", "", " ", "", " "}
DIGITS == {"0","1","2","3","4","5","6","7","8","9"}

\* len(str.split())
WordCount(str) ==
    Cardinality({i \in 1..Len(str) :
        /\ str[i] \notin WHITESPACE
        /\ (i = 1 \/ str[i - 1] \in WHITESPACE)})

\* re.findall(r'\d+', str): the maximal runs of digits, left to right
DigitRunStarts(str) ==
    {i \in 1..Len(str) :
        str[i] \in DIGITS /\ (i = 1 \/ str[i - 1] \notin DIGITS)}
DigitRunEndMutantOneDigit(str, i) == i
DigitRunEnd(str, i) ==
    CHOOSE j \in i..Len(str) :
        /\ \A k \in i..j : str[k] \in DIGITS
        /\ (j = Len(str) \/ str[j + 1] \notin DIGITS)
NthSmallest(S, n) == CHOOSE x \in S : Cardinality({y \in S : y < x}) = n - 1
FindAllDigits(str) ==
    LET starts == DigitRunStarts(str)
    IN  [n \in 1..Cardinality(starts) |->
            LET i == NthSmallest(starts, n)
            IN  SubSeq(str, i, DigitRunEnd(str, i))]

\* lines 259-260: the guardrail's two heuristics
GIBBERISH_MIN_LEN == 15
SHORT_MAX_LEN == 15
SHORT_MAX_WORDS == 3
IsGibberishMutantAtLeast(str) ==
    Len(str) > 1 /\ (\A i \in 1..Len(str) : str[i] # " ")
                 /\ Len(str) >= GIBBERISH_MIN_LEN
IsGibberish(str) ==
    Len(str) > 1 /\ (\A i \in 1..Len(str) : str[i] # " ")
                 /\ Len(str) > GIBBERISH_MIN_LEN
IsShortConvo(str) == WordCount(str) < SHORT_MAX_WORDS /\ Len(str) < SHORT_MAX_LEN

-----------------------------------------------------------------------------
(* The template catalog (rich_templates_data) and the names used in it.    *)

ADDRESS == <<"a", "d", "d", "r", "e", "s", "s">>
ADDRESS_CAP == <<"A", "d", "d", "r", "e", "s", "s">>
PRICE == <<"p", "r", "i", "c", "e">>
PHOTO == <<"p", "h", "o", "t", "o">>
AGENT == <<"a", "g", "e", "n", "t">>

\* load_all_template_details(): loaded once, read-only afterwards.
rich_templates_data ==
    << [uid |-> "tpl_listed", name |-> <<"J", "u", "s", "t", " ", "L", "i", "s", "t", "e", "d">>,
        elements |-> << [name |-> ADDRESS_CAP, type |-> "text"],
                        [name |-> PHOTO, type |-> "image"] >>],
       [uid |-> "tpl_sold", name |-> <<"J", "u", "s", "t", " ", "S", "o", "l", "d", " ", "F", "l", "y", "e", "r">>,
        elements |-> << [name |-> ADDRESS, type |-> "text"],
                        [name |-> PRICE, type |-> "text"] >>],
       [uid |-> "tpl_card", name |-> <<"B", "u", "s", "i", "n", "e", "s", "s", " ", "C", "a", "r", "d">>,
        elements |-> << [name |-> AGENT, type |-> "text"],
                        [name |-> PHOTO, type |-> "image"] >>] >>

\* lines 155-160: category_map and its default
GENERAL_KEYWORDS == <<<<"f", "l", "y", "e", "r">>, <<"a", "d">>, <<"l", "i", "s", "t", "i", "n", "g">>, <<"p", "r", "o", "p", "e", "r", "t", "y">>>>
JUST_LISTED == <<"j", "u", "s", "t", "_", "l", "i", "s", "t", "e", "d">>
JUST_SOLD == <<"j", "u", "s", "t", "_", "s", "o", "l", "d">>
OPEN_HOUSE == <<"o", "p", "e", "n", "_", "h", "o", "u", "s", "e">>
GENERAL_PROPERTY_AD == <<"g", "e", "n", "e", "r", "a", "l", "_", "p", "r", "o", "p", "e", "r", "t", "y", "_", "a", "d">>
OTHER_CATEGORY == <<"o", "t", "h", "e", "r">>
CategoryKeywords(category) ==
    CASE category = JUST_LISTED -> <<<<"l", "i", "s", "t", "e", "d">>, <<"n", "e", "w">>>>
      [] category = JUST_SOLD -> <<<<"s", "o", "l", "d">>>>
      [] category = OPEN_HOUSE -> <<<<"o", "p", "e", "n", " ", "h", "o", "u", "s", "e">>, <<"o", "p", "e", "n", "h", "o", "u", "s", "e">>>>
      [] category = GENERAL_PROPERTY_AD -> GENERAL_KEYWORDS
      [] OTHER -> GENERAL_KEYWORDS

\* lines 163-167: whether some keyword occurs in the lower-cased name
MatchesCategory(t, keywords) ==
    \E k \in 1..Len(keywords) : Substring(keywords[k], Lower(t.name))

\* lines 163-171: the templates whose name matches, or the whole catalog
\* when none does
FilteredTemplates(category) ==
    LET keywords == CategoryKeywords(category)
        Matches(t) == MatchesCategory(t, keywords)
        filtered == SelectSeq(rich_templates_data, Matches)
    IN  IF filtered = <<>> THEN rich_templates_data ELSE filtered

\* categorize_request's CATEGORIES (src/gemini_helpers.py:45), and the
\* candidates of each, computed once
CATEGORIES == {JUST_LISTED, JUST_SOLD, OPEN_HOUSE, GENERAL_PROPERTY_AD,
               OTHER_CATEGORY}
CandidatesOf == [c \in CATEGORIES |-> FilteredTemplates(c)]
NoneMatches == [c \in CATEGORIES |->
                   \A i \in 1..Len(rich_templates_data) :
                       ~MatchesCategory(rich_templates_data[i], CategoryKeywords(c))]

-----------------------------------------------------------------------------
(* The model-backed helpers of src/gemini_helpers.py.  The language model  *)
(* is an oracle: each helper is what the code does with the oracle's reply.*)

\* categorize_request (lines 59-67)
CategorizeRequest(reply) ==
    IF reply.kind = "function_call" /\ reply.name = "set_design_category"
    THEN Get(reply.args, "category", GENERAL_PROPERTY_AD)
    ELSE GENERAL_PROPERTY_AD

\* create_modifications_for_template (lines 118-130): None, or the list of
\* the oracle's modifications copied one by one.
NoneList == [none |-> TRUE, list |-> <<>>]
SomeList(l) == [none |-> FALSE, list |-> l]
CopyModificationsMutantDropLast(raw) == SubSeq(raw, 1, Len(raw) - 1)
CopyModifications(raw) == [i \in 1..Len(raw) |-> raw[i]]
CreateModificationsForTemplate(reply) ==
    IF reply.kind = "function_call" /\ reply.name = "create_modifications"
    THEN LET raw_modifications == Get(reply.args, "modifications", <<>>)
         IN  IF raw_modifications = <<>> THEN SomeList(<<>>)
             ELSE SomeList(CopyModifications(raw_modifications))
    ELSE NoneList

-----------------------------------------------------------------------------
(* The identifier-collection branch of the main turn handler               *)
(* (src/chatbot_app.py:134-231).                                           *)

NoDigitsText(p) ==
    <<"I'm sorry, I couldn't find a valid numerical ID in '">> \o p
        \o <<"'. Please provide the MLS ID.">>
NotFoundText(mls_id) ==
    <<"I'm sorry, I couldn't find any property details for MLS ID# ">> \o mls_id
        \o <<". Please check the ID and try again.">>
GreatText(mls_id) ==
    <<"Great! I've pulled the data for MLS ID# ">> \o mls_id
        \o <<" and selected the best template. ">>
ALL_FOUND == <<"\n\nAll required information was found! Generating your image now...">>
ERR_IMAGE == <<"**Error:** Image generation failed.">>
NO_TEMPLATE == <<"I reviewed all our templates but couldn't find one with enough matching layers for that MLS data.">>
\* str.replace(old, new) for one-character old and new
Replace(str, old, new) ==
    [i \in 1..Len(str) |-> IF str[i] = old THEN new ELSE str[i]]
\* line 161, without its leading pictograph
SearchingInfo(category) ==
    <<"Searching for templates matching: **">> \o Replace(category, "_", " ")
        \o <<"**">>
NO_MATCH_WARNING == <<"No templates matched the category. Searching all available designs.">>

\* ", ".join(f"**{f}**" for f in missing_fields)
RECURSIVE MissingListStr(_)
MissingListStr(fields) ==
    IF fields = <<>> THEN <<>>
    ELSE <<"**">> \o Head(fields) \o <<"**">>
         \o (IF Tail(fields) = <<>> THEN <<>> ELSE <<", ">>)
         \o MissingListStr(Tail(fields))
AskMissingText(fields) ==
    <<"\n\nTo complete the design, could you please provide the ">>
        \o MissingListStr(fields) \o <<"?">>

\* lines 174-188: the candidates in order, keeping the first strictly
\* longer non-empty modification list.  results[i] is what the mapper
\* returned for templates[i].
NoBest == [found |-> FALSE, template |-> [uid |-> None, elements |-> <<>>],
           modifications |-> <<>>, highest_score |-> 0]
BetterMutantAcceptsEmpty(mods, best) ==
    ~mods.none /\ Len(mods.list) >= best.highest_score
BetterMutantLastMax(mods, best) ==
    ~mods.none /\ mods.list # <<>> /\ Len(mods.list) >= best.highest_score
Better(mods, best) ==
    ~mods.none /\ mods.list # <<>> /\ Len(mods.list) > best.highest_score
RECURSIVE SelectBest(_, _, _, _)
SelectBest(templates, results, i, best) ==
    IF i > Len(templates) THEN best
    ELSE SelectBest(templates, results, i + 1,
            IF Better(results[i], best)
            THEN [found |-> TRUE, template |-> templates[i],
                  modifications |-> results[i].list,
                  highest_score |-> Len(results[i].list)]
            ELSE best)

\* lines 199-204
MissingFieldsMutantAnyType(template_details, modifications) ==
    LET filled_layer_names ==
            {Lower(modifications[i].name) : i \in 1..Len(modifications)}
        IsMissing(layer) == Lower(layer.name) \notin filled_layer_names
        missing == SelectSeq(template_details.elements, IsMissing)
    IN  [i \in 1..Len(missing) |-> missing[i].name]
MissingFieldsMutantCaseSensitive(template_details, modifications) ==
    LET filled == {modifications[i].name : i \in 1..Len(modifications)}
        IsMissing(layer) == layer.name \notin filled /\ layer.type = "text"
        missing == SelectSeq(template_details.elements, IsMissing)
    IN  [i \in 1..Len(missing) |-> missing[i].name]
MissingFields(template_details, modifications) ==
    LET filled_layer_names ==
            {Lower(modifications[i].name) : i \in 1..Len(modifications)}
        IsMissing(layer) ==
            Lower(layer.name) \notin filled_layer_names /\ layer.type = "text"
        missing == SelectSeq(template_details.elements, IsMissing)
    IN  [i \in 1..Len(missing) |-> missing[i].name]

UserMessage(p) == [role |-> "user", content |-> p]
AssistantMessage(text) == [role |-> "assistant", content |-> text]

NonePrompt == [kind |-> "None"]
TextPrompt(p) == [kind |-> "text", text |-> p]
ImagePrompt(url, p) == [kind |-> "image_context", image_url |-> url, text |-> p]

\* lines 217-224: the render of the identifier branch, which appends the
\* image message on success and only displays an error otherwise.
PipelineRender(ss, uid, modifications, r) ==
    LET create == CreateImageCall(uid, modifications, r)
        polled == Truthy(r.create)
        ok == polled /\ ~RenderFalsy(r.poll)
                     /\ Truthy(Get(r.poll, "image_url_png", None))
        image_generation_message ==
            <<"![Generated Image](", Get(r.poll, "image_url_png", None), ")">>
    IN  [messages |-> IF ok THEN Append(ss.messages,
                                   AssistantMessage(image_generation_message))
                      ELSE ss.messages,
         calls |-> IF polled THEN <<create, PollCall(r)>> ELSE <<create>>,
         shown |-> IF ok THEN <<image_generation_message>> ELSE <<ERR_IMAGE>>]

\* lines 57-77: fetch_listing_details catches RequestException, KeyError,
\* ValueError and IndexError.  A 200 answer whose JSON body is not the nested
\* mapping line 66 walks with .get (a list, a string, "data" or "content"
\* null) raises AttributeError there, which passes both handlers.
FETCH_RAISES == "AttributeError"

\* lines 137-139 and 229-231: a re-prompt is displayed and appended, and
\* nothing else of the session changes.
RepromptMutantForgets(ss, text) ==
    [ss EXCEPT !.messages = Append(@, AssistantMessage(text)),
               !.initial_request_prompt = NonePrompt]
RepromptMutantClears(ss, text) ==
    [ss EXCEPT !.messages = Append(@, AssistantMessage(text)),
               !.design_context = EmptyContext]
RepromptMutantLeaves(ss, text) ==
    [ss EXCEPT !.messages = Append(@, AssistantMessage(text)),
               !.awaiting_mls_id = FALSE]
Reprompt(ss, text) == [ss EXCEPT !.messages = Append(@, AssistantMessage(text))]

\* One script run with a chat input while awaiting_mls_id is True.  ss is
\* the session state with the user message appended; env holds what the
\* outside world answers in this run: the listing fetch, the categorizer
\* oracle, the mapper oracle per candidate, the render service.  When the
\* fetch raises (env.listing = FETCH_RAISES) nothing catches the exception:
\* the script run stops at line 143 with the user message appended and
\* nothing displayed, response_text not yet bound.
AwaitingTurn(ss, p, env) ==
    LET found_numbers == FindAllDigits(p)
        mls_id == found_numbers[1]
        fetch == [fn |-> "fetch_listing_details", mls_id |-> mls_id,
                  listing_data |-> env.listing]
        initial_prompt == IF ss.initial_request_prompt # NonePrompt
                          THEN ss.initial_request_prompt ELSE TextPrompt(p)
        category == CategorizeRequest(env.categorizer)
        categorize == [fn |-> "categorize_request", user_prompt |-> initial_prompt,
                       category |-> category]
        no_match == IF category \in CATEGORIES THEN NoneMatches[category]
                    ELSE NoneMatches[GENERAL_PROPERTY_AD]
        filtered_templates == IF category \in CATEGORIES
                              THEN CandidatesOf[category]
                              ELSE FilteredTemplates(category)
        results == [i \in 1..Len(filtered_templates) |->
                       CreateModificationsForTemplate(
                           env.mapper[filtered_templates[i].uid])]
        mapping == [i \in 1..Len(filtered_templates) |->
                       [fn |-> "create_modifications_for_template",
                        template_uid |-> filtered_templates[i].uid,
                        mods |-> results[i]]]
        best == SelectBest(filtered_templates, results, 1, NoBest)
        selected == [ss EXCEPT !.awaiting_mls_id = FALSE,
                               !.initial_request_prompt = NonePrompt,
                               !.design_context =
                                   [template_uid |-> best.template.uid,
                                    modifications |-> best.modifications]]
        missing_fields == MissingFields(best.template, best.modifications)
        great == GreatText(mls_id)
        render == PipelineRender(selected, best.template.uid,
                                 best.modifications, env.render)
        \* lines 161 and 170: the notice of the category, then the warning
        \* when no template name matches it
        searching == <<SearchingInfo(category)>>
                     \o (IF no_match THEN <<NO_MATCH_WARNING>> ELSE <<>>)
    IN  IF found_numbers = <<>>
        THEN [ss |-> Reprompt(ss, NoDigitsText(p)),
              response_text |-> NoDigitsText(p),
              calls |-> <<>>, shown |-> <<NoDigitsText(p)>>,
              crashed |-> FALSE]
        ELSE IF env.listing = FETCH_RAISES
        THEN [ss |-> ss, response_text |-> <<>>,
              calls |-> <<fetch>>, shown |-> <<>>,
              crashed |-> TRUE]
        ELSE IF ~Truthy(env.listing)
        THEN [ss |-> Reprompt(ss, NotFoundText(mls_id)),
              response_text |-> NotFoundText(mls_id),
              calls |-> <<fetch>>, shown |-> <<NotFoundText(mls_id)>>,
              crashed |-> FALSE]
        ELSE IF ~best.found
        THEN [ss |-> ss, response_text |-> <<>>,
              calls |-> <<fetch, categorize>> \o mapping,
              shown |-> searching \o <<NO_TEMPLATE>>,
              crashed |-> FALSE]
        ELSE IF missing_fields # <<>>
        THEN [ss |-> [selected EXCEPT !.messages =
                         Append(@, AssistantMessage(
                                       great \o AskMissingText(missing_fields)))],
              response_text |-> great \o AskMissingText(missing_fields),
              calls |-> <<fetch, categorize>> \o mapping,
              shown |-> searching \o <<great \o AskMissingText(missing_fields)>>,
              crashed |-> FALSE]
        ELSE [ss |-> [selected EXCEPT !.messages = render.messages],
              response_text |-> great \o ALL_FOUND,
              calls |-> <<fetch, categorize>> \o mapping \o render.calls,
              shown |-> searching \o <<great \o ALL_FOUND>> \o render.shown,
              crashed |-> FALSE]

-----------------------------------------------------------------------------
(* The free-form branch of the main turn handler                           *)
(* (src/chatbot_app.py:232-276).                                           *)

UPLOAD_FAILED == <<"Image upload failed.">>

\* lines 259-261: the guardrail overrides a RESET on a noise prompt
GuardrailMutantNever(decision, p) == FALSE
Guardrail(decision, p) ==
    Get(decision, "action", None) = "RESET" /\ (IsGibberish(p) \/ IsShortConvo(p))

\* A call of handle_ai_decision: its argument and the design context of the
\* session when it is called.
HandleCall(ctx, decision) ==
    [fn |-> "handle_ai_decision", decision |-> decision, design_context |-> ctx]

\* lines 255-268: what the turn does with the oracle's response.  parts[0]
\* of a first candidate that has no parts raises IndexError (line 256),
\* which nothing catches: the script run stops there, response_text being
\* the default of line 246.
Dispatch(ctx, p, response, r) ==
    IF response.kind = "None" \/ response.kind = "no_candidates"
    THEN [design_context |-> ctx, response_text |-> TROUBLE, calls |-> <<>>,
          crashed |-> FALSE]
    ELSE IF response.kind = "no_parts"
    THEN [design_context |-> ctx, response_text |-> SOMETHING_WRONG,
          calls |-> <<>>, crashed |-> TRUE]
    ELSE IF response.kind = "function_call"
    THEN IF Guardrail(response.args, p)
         THEN [design_context |-> ctx, response_text |-> CLARIFICATION,
               calls |-> <<>>, crashed |-> FALSE]
         ELSE LET handled == HandleAiDecision(ctx, response.args, r)
              IN  [design_context |-> handled.design_context,
                   response_text |-> handled.response_text,
                   calls |-> <<HandleCall(ctx, response.args)>> \o handled.calls,
                   crashed |-> FALSE]
    ELSE IF response.kind = "text" /\ response.text # <<>>
    THEN [design_context |-> ctx, response_text |-> response.text,
          calls |-> <<>>, crashed |-> FALSE]
    ELSE [design_context |-> ctx, response_text |-> TROUBLE, calls |-> <<>>,
          crashed |-> FALSE]

\* lines 270-273
EntersSubDialogueMutantAlways(text) == TRUE
EntersSubDialogue(text) == Contains(text, TRIGGER_PHRASE)

\* One script run with a chat input while awaiting_mls_id is False.  ss is
\* the session state with the user message appended; env holds the image
\* host's answer, the oracle's response and the render service.  The typing
\* indicator of line 234 is not kept in shown; the texts lines 243 and 275
\* put in the same placeholder are.
FreeFormTurn(ss, p, env) ==
    LET \* line 236: `if st.session_state.staged_file:`
        uploads == Truthy(ss.staged_file)
        upload == [fn |-> "upload_image_to_freeimage",
                   image_url |-> env.image_url]
        \* line 239, inside that test
        staged_after == IF uploads THEN None ELSE ss.staged_file
        final_prompt_for_ai ==
            IF ~uploads THEN TextPrompt(p)
            ELSE IF Truthy(env.image_url) THEN ImagePrompt(env.image_url, p)
            ELSE NonePrompt
        asks == final_prompt_for_ai # NonePrompt
        generate == [fn |-> "generate_gemini_response",
                     user_prompt |-> final_prompt_for_ai,
                     current_design_context |-> ss.design_context,
                     response |-> env.response]
        out == IF asks
               THEN Dispatch(ss.design_context, p, env.response, env.render)
               ELSE [design_context |-> ss.design_context,
                     response_text |-> SOMETHING_WRONG, calls |-> <<>>,
                     crashed |-> FALSE]
        enters == EntersSubDialogue(out.response_text)
    IN  IF out.crashed
        THEN [ss |-> [ss EXCEPT !.staged_file = staged_after],
              response_text |-> out.response_text,
              calls |-> (IF uploads THEN <<upload>> ELSE <<>>) \o <<generate>>,
              shown |-> <<>>,
              crashed |-> TRUE]
        ELSE
        [ss |-> [messages |-> Append(ss.messages,
                                     AssistantMessage(out.response_text)),
                 design_context |-> out.design_context,
                 staged_file |-> staged_after,
                 awaiting_mls_id |-> IF enters THEN TRUE ELSE ss.awaiting_mls_id,
                 initial_request_prompt |->
                     IF enters THEN final_prompt_for_ai
                     ELSE ss.initial_request_prompt],
         response_text |-> out.response_text,
         calls |-> (IF uploads THEN <<upload>> ELSE <<>>)
                   \o (IF asks THEN <<generate>> ELSE <<>>) \o out.calls,
         shown |-> (IF uploads /\ ~asks THEN <<UPLOAD_FAILED>> ELSE <<>>)
                   \o <<out.response_text>>,
         crashed |-> FALSE]

-----------------------------------------------------------------------------
(* What the outside world can hand the application in one script run.      *)

\* chat inputs
P_NO_IDEA == <<"n", "o", " ", "i", "d", "e", "a">>
P_GIBBERISH == <<"a", "s", "d", "f", "g", "h", "j", "k", "l", "q", "w", "e", "r", "t", "y", "u", "i", "o", "p">>
P_MLS == <<"i", "t", "'", "s", " ", "M", "L", "S", " ", "3", "8", "4", "9", "2", "1", " ", "I", " ", "t", "h", "i", "n", "k">>
P_TWO_IDS == <<"1", "2", " ", "3", "4", "5">>
Prompts == {P_GIBBERISH, P_MLS}

\* response_text values of the oracle
OK_TEXT == <<"Okay, I've updated the design.">>
ASK_MLS_TEXT == <<"Great! To get started quickly, ", TRIGGER_PHRASE,
                  " for the property?">>
ResponseTexts == {OK_TEXT, ASK_MLS_TEXT}

\* layer modifications an oracle can name
Mods == { [name |-> ADDRESS, text |-> "123 Main St"],
          [name |-> ADDRESS, text |-> "9 Elm Rd"],
          [name |-> PRICE, text |-> "$450,000"] }

\* all lists of at most n modifications
RECURSIVE ModLists(_)
ModLists(n) ==
    IF n = 0 THEN {<<>>}
    ELSE LET shorter == ModLists(n - 1)
         IN  shorter \cup {Append(l, m) : l \in shorter, m \in Mods}

\* the render service: create_image's answer, then poll_for_image's
RenderOutcomes ==
    { [create |-> None, poll |-> NoImage],
      [create |-> "job", poll |-> NoImage],
      [create |-> "job", poll |-> [status |-> "failed"]],
      [create |-> "job", poll |-> [image_url_png |-> "https://cdn/image.png"]] }

\* decisions of the workflow oracle (the function call's args)
DecisionUids == {"tpl_listed", "tpl_sold"}
ModifyDecisions ==
    { [action |-> "MODIFY", response_text |-> OK_TEXT] }
    \cup { [action |-> "MODIFY", response_text |-> t, modifications |-> l] :
             t \in ResponseTexts, l \in ModLists(1) }
    \cup { [action |-> "MODIFY", response_text |-> OK_TEXT, template_uid |-> u,
            modifications |-> l] : u \in DecisionUids \cup {""}, l \in ModLists(1) }
OtherDecisions ==
    { [action |-> a, response_text |-> t] :
          a \in {"CONVERSE", "GENERATE", "RESET"}, t \in ResponseTexts }
    \cup { [action |-> "DELETE", response_text |-> OK_TEXT],
           [response_text |-> OK_TEXT],
           [action |-> "GENERATE"] }
Decisions == ModifyDecisions \cup OtherDecisions

\* responses of generate_gemini_response
OracleResponses ==
    { [kind |-> "None"], [kind |-> "no_candidates"], [kind |-> "empty_part"],
      [kind |-> "no_parts"] }
    \cup { [kind |-> "text", text |-> t] : t \in ResponseTexts }
    \cup { [kind |-> "function_call", args |-> d] : d \in Decisions }

\* replies of the categorizer oracle
CategorizerReplies ==
    { [kind |-> "error"] }
    \cup { [kind |-> "function_call", name |-> "set_design_category",
            args |-> [category |-> c]] : c \in {JUST_SOLD, OPEN_HOUSE} }

\* replies of the mapper oracle for one template
MapperReplies ==
    { [kind |-> "error"],
      [kind |-> "function_call", name |-> "create_modifications",
       args |-> [k \in {} |-> None]] }
    \cup { [kind |-> "function_call", name |-> "create_modifications",
            args |-> [modifications |-> l]] :
              l \in { <<[name |-> ADDRESS, text |-> "123 Main St"]>>,
                      <<[name |-> ADDRESS, text |-> "123 Main St"],
                        [name |-> PRICE, text |-> "$450,000"]>>,
                      <<[name |-> ADDRESS, text |-> "123 Main St"],
                        [name |-> ADDRESS, text |-> "9 Elm Rd"]>> } }

-----------------------------------------------------------------------------
(* The session as a state machine: one action per script run.              *)

\* initialize_session_state (lines 43-54), at the end of the first script run
Init ==
    /\ messages = <<"assistant">>
    /\ design_context = EmptyContext
    /\ staged_file = None
    /\ awaiting_mls_id = FALSE
    /\ initial_request_prompt = NonePrompt
    /\ prompt = <<>>
    /\ response_text = <<>>
    /\ calls = <<>>
    /\ shown = <<>>
    /\ appended = <<AssistantMessage(GREETING)>>
    /\ pc = "ran"

UserTurns == Cardinality({i \in 1..Len(messages) : messages[i] = "user"})

\* lines 118-123, executed by every script run before the chat input is
\* looked at: st.file_uploader hands back None or the file the sidebar holds
\* (an UploadedFile, truthy whatever its length), whose bytes replace what is
\* staged.  getvalue() of an empty file is b'', the empty string here.  The
\* sidebar's st.success, the redraw of the history (lines 125-127) and the
\* echo of the chat input (line 130) are not kept in shown.
StagedFiles == {"", "image_bytes"}

\* The session state a script run with chat input p works on, the sidebar
\* holding staged_file_bytes.  Its messages field collects what the run
\* appends, starting with the chat input (lines 129-131).
RunSession(p, staged_file_bytes) ==
    [messages |-> <<UserMessage(p)>>, design_context |-> design_context,
     staged_file |-> IF staged_file_bytes # None THEN staged_file_bytes
                     ELSE staged_file,
     awaiting_mls_id |-> awaiting_mls_id,
     initial_request_prompt |-> initial_request_prompt]

Roles(msgs) == [i \in 1..Len(msgs) |-> msgs[i].role]

Apply(out, p) ==
    /\ messages' = messages \o Roles(out.ss.messages)
    /\ appended' = out.ss.messages
    /\ design_context' = out.ss.design_context
    /\ staged_file' = out.ss.staged_file
    /\ awaiting_mls_id' = out.ss.awaiting_mls_id
    /\ initial_request_prompt' = out.ss.initial_request_prompt
    /\ prompt' = p
    /\ response_text' = out.response_text
    /\ calls' = out.calls
    /\ shown' = out.shown
    /\ pc' = IF out.crashed THEN "crashed" ELSE "ran"

Renders(out) == \E i \in 1..Len(out.calls) : out.calls[i].fn = "create_image"
AnyRender == CHOOSE r \in RenderOutcomes : TRUE

\* A script run ends: its local variables (prompt, response_text) and what
\* it called and displayed are gone; the session state stays.
EndRun ==
    /\ pc \in {"ran", "crashed"}
    /\ pc' = "idle"
    /\ prompt' = <<>>
    /\ response_text' = <<>>
    /\ calls' = <<>>
    /\ shown' = <<>>
    /\ appended' = <<>>
    /\ UNCHANGED <<messages, design_context, staged_file, awaiting_mls_id,
                   initial_request_prompt>>

\* lines 118-123: a script run in which the sidebar holds a file and no chat
\* input arrived; the file replaces whatever was staged.
AttachImage ==
    /\ pc = "idle"
    /\ staged_file' \in StagedFiles
    /\ UNCHANGED <<messages, design_context, awaiting_mls_id,
                   initial_request_prompt, prompt, response_text, calls,
                   shown, appended, pc>>

\* what fetch_listing_details returns: None, listings[0] when the service
\* hands back an empty one (falsy), or a listing
Listings == {None, "", "listing"}

\* lines 118-231: a chat input in awaiting-identifier mode, drawn from
\* prompts, with what the sidebar holds in that run; the call of
\* fetch_listing_details returns one of Listings or raises
IdentifierOver(prompts) ==
    /\ pc = "idle"
    /\ UserTurns < MaxTurns
    /\ awaiting_mls_id
    /\ \E p \in prompts :
       \E staged_file_bytes \in {None} \cup StagedFiles :
       \E listing \in IF FindAllDigits(p) = <<>> THEN {None}
                      ELSE Listings \cup {FETCH_RAISES} :
       LET found == Truthy(listing) /\ listing # FETCH_RAISES IN
       \E categorizer \in IF ~found THEN {[kind |-> "error"]}
                          ELSE CategorizerReplies :
       LET candidates == FilteredTemplates(CategorizeRequest(categorizer))
           uids == IF ~found THEN {}
                   ELSE {candidates[i].uid : i \in 1..Len(candidates)}
           ss == RunSession(p, staged_file_bytes)
       IN  \E mapper \in [uids -> MapperReplies] :
           LET env == [listing |-> listing, categorizer |-> categorizer,
                       mapper |-> mapper, render |-> AnyRender]
               out == AwaitingTurn(ss, p, env)
           IN  IF Renders(out)
               THEN \E r \in RenderOutcomes :
                       Apply(AwaitingTurn(ss, p, [env EXCEPT !.render = r]), p)
               ELSE Apply(out, p)

IdentifierTurn == IdentifierOver(Prompts)

\* lines 118-133, 232-276: a chat input in free-form mode, drawn from
\* prompts, with what the sidebar holds in that run, answered by an oracle
\* response drawn from responses
FreeFormOver(prompts, responses) ==
    /\ pc = "idle"
    /\ UserTurns < MaxTurns
    /\ ~awaiting_mls_id
    /\ \E p \in prompts :
       \E staged_file_bytes \in {None} \cup StagedFiles :
       LET ss == RunSession(p, staged_file_bytes)
       IN  \E image_url \in IF ~Truthy(ss.staged_file) THEN {None}
                            ELSE {None, "https://img/upload.png"} :
           \E response \in IF Truthy(ss.staged_file) /\ image_url = None
                           THEN {[kind |-> "None"]} ELSE responses :
           LET env == [image_url |-> image_url, response |-> response,
                       render |-> AnyRender]
               out == FreeFormTurn(ss, p, env)
           IN  IF Renders(out)
               THEN \E r \in RenderOutcomes :
                       Apply(FreeFormTurn(ss, p, [env EXCEPT !.render = r]), p)
               ELSE Apply(out, p)

FreeFormRun == FreeFormOver(Prompts, OracleResponses)

Next == EndRun \/ AttachImage \/ IdentifierTurn \/ FreeFormRun

Spec == Init /\ [][Next]_vars

-----------------------------------------------------------------------------
(* The decision router on its own: handle_ai_decision applied to two       *)
(* successive decisions, from a design context the session can hold.  The  *)
(* calls of both applications are kept.                                    *)

PHOTO_MOD == [name |-> PHOTO, image_url |-> "https://img/upload.png"]
RouterContexts ==
    { EmptyContext,
      [template_uid |-> None,
       modifications |-> <<[name |-> PRICE, text |-> "$450,000"]>>],
      [template_uid |-> "tpl_sold", modifications |-> <<PHOTO_MOD>>],
      [template_uid |-> "tpl_listed",
       modifications |-> <<[name |-> ADDRESS, text |-> "123 Main St"],
                           [name |-> ADDRESS, text |-> "9 Elm Rd"]>>] }

RouterDecisions ==
    { [action |-> "MODIFY", response_text |-> OK_TEXT] }
    \cup { [action |-> "MODIFY", response_text |-> OK_TEXT, modifications |-> l] :
             l \in ModLists(MaxMods) }
    \cup { [action |-> "MODIFY", response_text |-> OK_TEXT, template_uid |-> u,
            modifications |-> l] :
             u \in DecisionUids \cup {""}, l \in ModLists(MaxMods) }
    \cup { [action |-> a, response_text |-> OK_TEXT] :
             a \in {"CONVERSE", "GENERATE", "RESET"} }

InitRouter ==
    /\ messages = <<"assistant">>
    /\ design_context \in RouterContexts
    /\ staged_file = None
    /\ awaiting_mls_id = FALSE
    /\ initial_request_prompt = NonePrompt
    /\ prompt = <<>>
    /\ response_text = <<>>
    /\ calls = <<>>
    /\ shown = <<>>
    /\ appended = <<>>
    /\ pc = "router"

RouterStep(from, to) ==
    /\ pc = from
    /\ \E decision \in RouterDecisions :
       \E r \in IF HandleAiDecision(design_context, decision, AnyRender).calls # <<>>
                THEN RenderOutcomes ELSE {AnyRender} :
          LET out == HandleAiDecision(design_context, decision, r)
          IN  /\ design_context' = out.design_context
              /\ response_text' = out.response_text
              /\ calls' = calls \o <<HandleCall(design_context, decision)>>
                                \o out.calls
    /\ pc' = to
    /\ UNCHANGED <<messages, staged_file, awaiting_mls_id,
                   initial_request_prompt, prompt, shown, appended>>

RouterFirst == RouterStep("router", "router_once")
RouterSecond == RouterStep("router_once", "router_twice")

NextRouter == RouterFirst \/ RouterSecond

SpecRouter == InitRouter /\ [][NextRouter]_vars

-----------------------------------------------------------------------------
(* The free-form branch on prompts at the guardrail's thresholds.          *)

GuardrailPrompts ==
    { P_NO_IDEA, P_GIBBERISH,
      <<"x">>,
      <<"a", "b", "c", "d", "e", "f", "g", "h", "i", "j", "k", "l", "m", "n", "o">>,
      <<"a", "b", "c", "d", "e", "f", "g", "h", "i", "j", "k", "l", "m", "n", "o", "p">>,
      <<"d", "e", "s", "i", "g", "n", " ", "a", "n", "o", "t", "h", "e", "r">>,
      <<"d", "e", "s", "i", "g", "n", "s", " ", "a", "n", "o", "t", "h", "e", "r">>,
      <<"a", " ", "b", " ", "c">>,
      <<"s", "t", "a", "r", "t", " ", "o", "v", "e", "r", " ", "p", "l", "e", "a", "s", "e">>,
      <<"s", "t", "a", "r", "t", "\t", "o", "v", "e", "r", "\t", "p", "l", "e", "a", "s", "e", "\t", "n", "o", "w">>,
      <<"a", "\f", "b", "\f", "c">>,
      <<"a", " ", "b", " ", "c">>,
      <<"a", " ", "b">> }

GuardrailResponses ==
    { [kind |-> "function_call", args |-> d] :
        d \in { [action |-> "RESET", response_text |-> OK_TEXT],
                [action |-> "CONVERSE", response_text |-> OK_TEXT],
                [action |-> "MODIFY", response_text |-> OK_TEXT,
                 template_uid |-> "tpl_sold",
                 modifications |-> <<[name |-> PRICE, text |-> "$450,000"]>>] } }

GuardrailRun == FreeFormOver(GuardrailPrompts, GuardrailResponses)

NextGuardrail == EndRun \/ AttachImage \/ GuardrailRun

SpecGuardrail == Init /\ [][NextGuardrail]_vars

-----------------------------------------------------------------------------
(* The identifier sub-dialogue with users who decline: an oracle that      *)
(* follows the MLS ID FIRST rule of its instructions                       *)
(* (src/gemini_helpers.py:157), and users who answer the question with a   *)
(* refusal, a request or numbers.                                          *)

P_NO == <<"n", "o">>
P_DONT_HAVE == <<"I", " ", "d", "o", "n", "'", "t", " ", "h", "a", "v", "e", " ", "o", "n", "e">>
P_FLYER == <<"m", "a", "k", "e", " ", "a", " ", "f", "l", "y", "e", "r">>
DecliningPrompts == {P_NO, P_DONT_HAVE}
SubDialoguePrompts == DecliningPrompts \cup {P_FLYER, P_TWO_IDS}

NO_PROBLEM_TEXT == <<"No problem. What is the property address to get started?">>
SubDialogueResponses ==
    { [kind |-> "function_call",
       args |-> [action |-> "CONVERSE", response_text |-> t]] :
         t \in {ASK_MLS_TEXT, NO_PROBLEM_TEXT} }

SubDialogueFreeForm == FreeFormOver(SubDialoguePrompts, SubDialogueResponses)
SubDialogueIdentifier == IdentifierOver(SubDialoguePrompts)

NextSubDialogue ==
    EndRun \/ AttachImage \/ SubDialogueFreeForm \/ SubDialogueIdentifier

SpecSubDialogue == Init /\ [][NextSubDialogue]_vars

-----------------------------------------------------------------------------
(* The best-template loop on its own (src/chatbot_app.py:174-197): four    *)
(* candidates in catalog order, the mapper's result for each taken as      *)
(* given, and the selection stored in the design context.                  *)

BEDS == <<"b", "e", "d", "s">>
SelectLayers == <<ADDRESS, PRICE, AGENT, PHOTO, BEDS>>
SelectCandidates ==
    [i \in 1..4 |->
        [uid |-> <<"tpl_a", "tpl_b", "tpl_c", "tpl_d">>[i],
         name |-> <<"F", "l", "y", "e", "r">>,
         elements |-> [k \in 1..Len(SelectLayers) |->
                          [name |-> SelectLayers[k], type |-> "text"]]]]

\* a mapper result of n modifications for a template: its first n layers,
\* the text telling which template it was made for
MapperOutput(uid, n) ==
    SomeList([k \in 1..n |-> [name |-> SelectLayers[k], text |-> uid]])
SelectLengths == {0, 1, 2, 5}
\* what create_modifications_for_template can return for candidate i
SelectOutputs(i) ==
    {NoneList} \cup {MapperOutput(SelectCandidates[i].uid, n) : n \in SelectLengths}

\* the calls of create_modifications_for_template of lines 179-184
MappingLog(results) ==
    [i \in 1..Len(SelectCandidates) |->
        [fn |-> "create_modifications_for_template",
         template_uid |-> SelectCandidates[i].uid,
         mods |-> results[i]]]

InitSelect ==
    /\ messages = <<"assistant", "user", "assistant", "user">>
    /\ design_context = EmptyContext
    /\ staged_file = None
    /\ awaiting_mls_id = TRUE
    /\ initial_request_prompt = TextPrompt(P_FLYER)
    /\ prompt = P_TWO_IDS
    /\ response_text = <<>>
    /\ \E r1 \in SelectOutputs(1), r2 \in SelectOutputs(2),
          r3 \in SelectOutputs(3), r4 \in SelectOutputs(4) :
          calls = MappingLog(<<r1, r2, r3, r4>>)
    /\ shown = <<>>
    /\ appended = <<UserMessage(P_TWO_IDS)>>
    /\ pc = "select"

\* lines 174-197: the loop over the results, then the assignments made
\* when a template was selected
SelectStep ==
    /\ pc = "select"
    /\ LET results == [i \in 1..Len(calls) |-> calls[i].mods]
           best == SelectBest(SelectCandidates, results, 1, NoBest)
       IN  IF best.found
           THEN /\ awaiting_mls_id' = FALSE
                /\ initial_request_prompt' = NonePrompt
                /\ design_context' = [template_uid |-> best.template.uid,
                                      modifications |-> best.modifications]
           ELSE UNCHANGED <<awaiting_mls_id, initial_request_prompt,
                            design_context>>
    /\ pc' = "selected"
    /\ UNCHANGED <<messages, staged_file, prompt, response_text, calls, shown,
                   appended>>

NextSelect == SelectStep

SpecSelect == InitSelect /\ [][NextSelect]_vars

-----------------------------------------------------------------------------
(* The two render sites under the two kinds of failure: the same design is *)
(* rendered by the decision router (lines 98-108) or by the identifier     *)
(* pipeline (lines 217-224), first with the create request rejected, then  *)
(* with the polling ending without an image.  `shown` keeps what each      *)
(* attempt displayed, in order.                                            *)

RenderSites == {"router", "pipeline"}
StartFailure == [create |-> None, poll |-> NoImage]
PollingFailures == {r \in RenderOutcomes :
                       r.create # None /\ "image_url_png" \notin DOMAIN r.poll}

\* what a render attempt of the design context displays and calls at a site
RenderAt(site, r) ==
    IF site = "router"
    THEN LET decision == [action |-> "GENERATE", response_text |-> OK_TEXT]
             out == HandleAiDecision(design_context, decision, r)
         IN  [shown |-> <<out.response_text>>, calls |-> out.calls]
    ELSE LET out == PipelineRender(RunSession(P_TWO_IDS, None),
                                   design_context.template_uid,
                                   design_context.modifications, r)
         IN  [shown |-> out.shown, calls |-> out.calls]

\* The state in which a render attempt starts.  The router renders whatever
\* design the session holds under a set template (lines 98-101).  The
\* pipeline renders only the design it has just selected and stored: a
\* non-empty modification list (line 185) that leaves no text layer of the
\* template unfilled (line 208 asks for the missing ones instead).
InitRenderFailures ==
    /\ messages = <<"assistant", "user", "assistant", "user">>
    /\ \E site \in RenderSites, u \in DecisionUids, l \in ModLists(MaxMods) :
          LET template == CHOOSE t \in {rich_templates_data[k] :
                                          k \in 1..Len(rich_templates_data)} :
                              t.uid = u
          IN  /\ pc = <<"render", site>>
              /\ design_context = [template_uid |-> u, modifications |-> l]
              /\ site = "pipeline"
                    => l # <<>> /\ MissingFields(template, l) = <<>>
    /\ staged_file = None
    /\ awaiting_mls_id = FALSE
    /\ initial_request_prompt = NonePrompt
    /\ prompt = P_TWO_IDS
    /\ response_text = <<>>
    /\ calls = <<>>
    /\ shown = <<>>
    /\ appended = <<UserMessage(P_TWO_IDS)>>

RenderStartFails ==
    /\ \E site \in RenderSites :
          /\ pc = <<"render", site>>
          /\ pc' = <<"start_failed", site>>
          /\ LET out == RenderAt(site, StartFailure)
             IN  shown' = shown \o out.shown /\ calls' = calls \o out.calls
    /\ UNCHANGED <<messages, design_context, staged_file, awaiting_mls_id,
                   initial_request_prompt, prompt, response_text, appended>>

RenderPollingFails ==
    /\ \E site \in RenderSites, r \in PollingFailures :
          /\ pc = <<"start_failed", site>>
          /\ pc' = <<"both_failed", site>>
          /\ LET out == RenderAt(site, r)
             IN  shown' = shown \o out.shown /\ calls' = calls \o out.calls
    /\ UNCHANGED <<messages, design_context, staged_file, awaiting_mls_id,
                   initial_request_prompt, prompt, response_text, appended>>

NextRenderFailures == RenderStartFails \/ RenderPollingFails

SpecRenderFailures == InitRenderFailures /\ [][NextRenderFailures]_vars

-----------------------------------------------------------------------------
(* The identifier sub-dialogue on answers that carry digits in different   *)
(* places (src/chatbot_app.py:135-143): several runs, a run broken by a    *)
(* letter or a point, leading zeros, a single digit, no digit at all.      *)

P_BROKEN_RUN == <<"M", "L", "S", "#", "1", "2", "a", "3", "4", "5">>
P_ONE_DIGIT == <<"7">>
P_DECIMAL == <<"3", ".", "5", " ", "b", "a", "t", "h", "s", ",", " ", "i", "d", " ", "9", "9">>
P_LEADING_ZEROS == <<"i", "d", " ", "0", "0", "4", "2", ".">>
ExtractPrompts == {P_BROKEN_RUN, P_ONE_DIGIT, P_DECIMAL, P_LEADING_ZEROS,
                   P_TWO_IDS, P_NO}

ExtractFreeForm == FreeFormOver({P_FLYER}, SubDialogueResponses)
ExtractIdentifier == IdentifierOver(ExtractPrompts)

NextExtract == EndRun \/ AttachImage \/ ExtractFreeForm \/ ExtractIdentifier

SpecExtract == Init /\ [][NextExtract]_vars

-----------------------------------------------------------------------------
(* Missing-field detection on its own (src/chatbot_app.py:199-212): a      *)
(* template has just been selected with its modifications (lines 190-197), *)
(* and the turn computes missing_fields and the reply that asks for them.  *)

BEDROOMS == <<"b", "e", "d", "r", "o", "o", "m", "s">>
PRICE_UPPER == <<"P", "R", "I", "C", "E">>
ETAGE == <<"é", "t", "a", "g", "e">>
ETAGE_CAP == <<"É", "t", "a", "g", "e">>

\* templates with text and non-text layers, names in mixed case, and a
\* layer name used twice
MissingTemplates ==
    { [uid |-> "tpl_m1", name |-> <<"F", "l", "y", "e", "r">>,
       elements |-> << [name |-> ADDRESS, type |-> "text"],
                       [name |-> PRICE, type |-> "text"],
                       [name |-> BEDROOMS, type |-> "text"],
                       [name |-> PHOTO, type |-> "image"] >>],
      [uid |-> "tpl_m2", name |-> <<"F", "l", "y", "e", "r">>,
       elements |-> << [name |-> PHOTO, type |-> "image"],
                       [name |-> ADDRESS_CAP, type |-> "text"],
                       [name |-> PRICE_UPPER, type |-> "text"],
                       [name |-> ETAGE_CAP, type |-> "text"] >>],
      [uid |-> "tpl_m3", name |-> <<"F", "l", "y", "e", "r">>,
       elements |-> << [name |-> AGENT, type |-> "shape"],
                       [name |-> ADDRESS, type |-> "text"],
                       [name |-> BEDROOMS, type |-> "text"],
                       [name |-> ADDRESS, type |-> "text"] >>],
      [uid |-> "tpl_m4", name |-> <<"F", "l", "y", "e", "r">>,
       elements |-> << [name |-> PHOTO, type |-> "image"],
                       [name |-> AGENT, type |-> "shape"] >>] }

MissingTemplate(uid) == CHOOSE t \in MissingTemplates : t.uid = uid

\* the names a modification can carry
MissingModNames == {ADDRESS, ADDRESS_CAP, PRICE, BEDROOMS, PHOTO, ETAGE}

\* all lists of at most n modifications over these names
RECURSIVE MissingModLists(_)
MissingModLists(n) ==
    IF n = 0 THEN {<<>>}
    ELSE LET shorter == MissingModLists(n - 1)
         IN  shorter \cup {Append(l, [name |-> m, text |-> "from listing"]) :
                              l \in shorter, m \in MissingModNames}

\* the state after lines 190-197: the selected template with the mapper's
\* list, which line 185 takes only when it is not empty
InitMissing ==
    /\ messages = <<"assistant", "user", "assistant", "user">>
    /\ \E t \in MissingTemplates, l \in MissingModLists(MaxMods) \ {<<>>} :
          /\ design_context = [template_uid |-> t.uid, modifications |-> l]
          /\ calls = <<[fn |-> "create_modifications_for_template",
                        template_uid |-> t.uid, mods |-> SomeList(l)]>>
    /\ staged_file = None
    /\ awaiting_mls_id = FALSE
    /\ initial_request_prompt = NonePrompt
    /\ prompt = P_TWO_IDS
    /\ response_text = <<>>
    /\ shown = <<>>
    /\ appended = <<UserMessage(P_TWO_IDS)>>
    /\ pc = "missing_fields"

\* lines 199-212: missing_fields, then the reply (the request for the
\* missing names is displayed and appended; the other reply leads to the
\* render, which is not part of this step)
MissingStep ==
    /\ pc = "missing_fields"
    /\ LET template_details == MissingTemplate(design_context.template_uid)
           missing_fields ==
               MissingFields(template_details, design_context.modifications)
           great == GreatText(FindAllDigits(prompt)[1])
       IN  IF missing_fields # <<>>
           THEN /\ response_text' = great \o AskMissingText(missing_fields)
                /\ shown' = <<response_text'>>
                /\ appended' = Append(appended, AssistantMessage(response_text'))
                /\ messages' = Append(messages, "assistant")
                /\ pc' = "asked"
           ELSE /\ response_text' = great \o ALL_FOUND
                /\ shown' = <<response_text'>>
                /\ UNCHANGED <<appended, messages>>
                /\ pc' = "rendering"
    /\ UNCHANGED <<design_context, staged_file, awaiting_mls_id,
                   initial_request_prompt, prompt, calls>>

NextMissing == MissingStep

SpecMissing == InitMissing /\ [][NextMissing]_vars

-----------------------------------------------------------------------------
(* Properties.                                                             *)

Ran == pc = "ran"
CallsOf(fn) == {i \in 1..Len(calls) : calls[i].fn = fn}
NoRenderCall == CallsOf("create_image") = {}
NamesOf(mods) == {mods[i].name : i \in 1..Len(mods)}
UniqueNames(mods) ==
    \A i, j \in 1..Len(mods) : mods[i].name = mods[j].name => i = j
ActionOf(call) == Get(call.decision, "action", None)
\* the render of create_image call i ended without an image
RenderFailed(i) ==
    \/ calls[i].job = None
    \/ /\ i < Len(calls)
       /\ calls[i + 1].fn = "poll_for_image"
       /\ "image_url_png" \notin DOMAIN calls[i + 1].final_image

\* C1 (SpecRouter).  Upsert on MODIFY: after two successive MODIFY decisions
\* the list holds exactly one entry per name; a name the later decision
\* gives carries the later decision's (last) value; every entry that was
\* there before the later decision keeps its place, and its value unless the
\* later decision names it; names new in the later decision follow, in the
\* order of their first appearance.
C1_Upsert ==
    (/\ pc = "router_twice"
     /\ \A i \in CallsOf("handle_ai_decision") : ActionOf(calls[i]) = "MODIFY")
    =>
    LET second == calls[CHOOSE i \in CallsOf("handle_ai_decision") :
                      \A j \in CallsOf("handle_ai_decision") : j <= i]
        before == second.design_context.modifications
        new == Get(second.decision, "modifications", <<>>)
        after == design_context.modifications
        FirstIn(n) == CHOOSE k \in 1..Len(new) :
                          new[k].name = n /\ \A m \in 1..(k - 1) : new[m].name # n
    IN  /\ UniqueNames(after)
        /\ NamesOf(after) = NamesOf(before) \cup NamesOf(new)
        /\ \A k \in 1..Len(new) :
              (\A m \in (k + 1)..Len(new) : new[m].name # new[k].name)
              => \E i \in 1..Len(after) : after[i] = new[k]
        /\ Len(after) >= Len(before)
        /\ \A i \in 1..Len(before) :
              /\ after[i].name = before[i].name
              /\ before[i].name \notin NamesOf(new) => after[i] = before[i]
        /\ \A i, j \in (Len(before) + 1)..Len(after) :
              i < j => FirstIn(after[i].name) < FirstIn(after[j].name)

\* C1 witness: two MODIFY decisions that share a name with different values,
\* while an older entry is not named by the later one and the later one
\* brings a new name.
C1_Witness ==
    /\ pc = "router_twice"
    /\ \A i \in CallsOf("handle_ai_decision") : ActionOf(calls[i]) = "MODIFY"
    /\ \E i, j \in CallsOf("handle_ai_decision") :
          /\ i < j
          /\ LET first == Get(calls[i].decision, "modifications", <<>>)
                 later == Get(calls[j].decision, "modifications", <<>>)
                 before == calls[j].design_context.modifications
             IN  /\ \E a \in 1..Len(first), b \in 1..Len(later) :
                       first[a].name = later[b].name /\ first[a] # later[b]
                 /\ NamesOf(before) \ NamesOf(later) # {}
                 /\ NamesOf(later) \ NamesOf(before) # {}

\* C2 (Spec).  Uniqueness: in every reachable state the design context
\* holds at most one modification per layer name.
C2_Uniqueness == UniqueNames(design_context.modifications)

\* C3 (Spec).  RESET: when handle_ai_decision has processed a RESET, the
\* template is unset and the modification list is empty, the decision's
\* response_text is the reply, and no render call was made.
C3_Reset ==
    Ran =>
    \A i \in CallsOf("handle_ai_decision") :
        ActionOf(calls[i]) = "RESET" =>
            /\ design_context.template_uid = None
            /\ design_context.modifications = <<>>
            /\ "response_text" \in DOMAIN calls[i].decision
                   => response_text = calls[i].decision.response_text
            /\ NoRenderCall

\* C3 witness: a RESET processed on a design with a template and entries.
C3_Witness ==
    /\ Ran
    /\ \E i \in CallsOf("handle_ai_decision") :
          /\ ActionOf(calls[i]) = "RESET"
          /\ calls[i].design_context.template_uid # None
          /\ calls[i].design_context.modifications # <<>>
          /\ design_context = EmptyContext

\* C4 (Spec).  Template change: a MODIFY decision makes a render attempt in
\* its turn exactly when it carries a (non-empty) template_uid that differs
\* from the current one and the current one was set.
C4_TemplateChange ==
    Ran =>
    \A i \in CallsOf("handle_ai_decision") :
        ActionOf(calls[i]) = "MODIFY" =>
            LET decision == calls[i].decision
                current == calls[i].design_context.template_uid
            IN  ~NoRenderCall <=>
                    /\ "template_uid" \in DOMAIN decision
                    /\ decision.template_uid # ""
                    /\ decision.template_uid # current
                    /\ current # None

\* C4 witness: a MODIFY that replaces a set template and so renders.
C4_Witness ==
    /\ Ran
    /\ \E i \in CallsOf("handle_ai_decision") :
          /\ ActionOf(calls[i]) = "MODIFY"
          /\ calls[i].design_context.template_uid = "tpl_listed"
          /\ Get(calls[i].decision, "template_uid", None) = "tpl_sold"
          /\ ~NoRenderCall

\* C5 (Spec).  CONVERSE leaves the design context as it was, makes no render
\* call, and the reply is the decision's response_text.
C5_Converse ==
    Ran =>
    \A i \in CallsOf("handle_ai_decision") :
        ActionOf(calls[i]) = "CONVERSE" =>
            /\ design_context = calls[i].design_context
            /\ NoRenderCall
            /\ "response_text" \in DOMAIN calls[i].decision
                   => response_text = calls[i].decision.response_text

\* C5 witness: a CONVERSE processed while a design is in progress.
C5_Witness ==
    /\ Ran
    /\ \E i \in CallsOf("handle_ai_decision") :
          /\ ActionOf(calls[i]) = "CONVERSE"
          /\ "response_text" \in DOMAIN calls[i].decision
          /\ design_context.template_uid # None
          /\ design_context.modifications # <<>>

\* C6 (Spec).  No render with an unset template: create_image is never
\* called with an unset template_uid, and a GENERATE met with an unset
\* template is answered by the refusal without any render call.
C6_NoRenderUnset ==
    /\ \A i \in CallsOf("create_image") :
          calls[i].template_uid # None /\ calls[i].template_uid # ""
    /\ Ran =>
       \A i \in CallsOf("handle_ai_decision") :
           (/\ ActionOf(calls[i]) = "GENERATE"
            /\ calls[i].design_context.template_uid = None)
           => response_text = REFUSAL /\ NoRenderCall

\* C6 witness: a GENERATE refused because no template is set, although
\* modifications were already collected.
C6_Witness ==
    /\ Ran
    /\ \E i \in CallsOf("handle_ai_decision") :
          /\ ActionOf(calls[i]) = "GENERATE"
          /\ calls[i].design_context.template_uid = None
          /\ calls[i].design_context.modifications # <<>>
          /\ response_text = REFUSAL

\* C7 (Spec).  Render failure preserves the design: after a failed render
\* the design context is what was submitted, and every GENERATE submits the
\* design context as the turn found it, so a retry submits it again.
C7_FailurePreserves ==
    Ran =>
    /\ \A i \in CallsOf("create_image") :
          RenderFailed(i) =>
              /\ design_context.template_uid = calls[i].template_uid
              /\ design_context.modifications = calls[i].modifications
    /\ \A h \in CallsOf("handle_ai_decision") :
          ActionOf(calls[h]) = "GENERATE" =>
              \A i \in CallsOf("create_image") :
                  /\ calls[i].template_uid = calls[h].design_context.template_uid
                  /\ calls[i].modifications = calls[h].design_context.modifications

\* C7 witness: a GENERATE whose render fails on a design with entries.
C7_Witness ==
    /\ Ran
    /\ \E h \in CallsOf("handle_ai_decision"), i \in CallsOf("create_image") :
          /\ ActionOf(calls[h]) = "GENERATE"
          /\ RenderFailed(i)
          /\ calls[i].job # None
          /\ calls[i].modifications # <<>>
          /\ design_context.modifications = calls[i].modifications

\* C8 (SpecGuardrail).  Guardrail against spurious resets: in a free-form
\* turn where the oracle returns RESET, if the user message is noise (more
\* than 15 characters with no space, or fewer than 3 words and fewer than
\* 15 characters) the design context is left as it was and the reply is the
\* generic clarification; if it is not noise the design context is cleared.
C8_Guardrail ==
    Ran =>
    \A i \in CallsOf("generate_gemini_response") :
        (/\ calls[i].response.kind = "function_call"
         /\ Get(calls[i].response.args, "action", None) = "RESET")
        => IF \/ Len(prompt) > 15 /\ \A k \in 1..Len(prompt) : prompt[k] # " "
              \/ WordCount(prompt) < 3 /\ Len(prompt) < 15
           THEN /\ design_context = calls[i].current_design_context
                /\ response_text = CLARIFICATION
                /\ CallsOf("handle_ai_decision") = {}
           ELSE design_context = EmptyContext

\* C8 witness: a RESET on a noise message overridden while a design with a
\* template and an entry is in progress.
C8_Witness ==
    /\ Ran
    /\ \E i \in CallsOf("generate_gemini_response") :
          /\ calls[i].response.kind = "function_call"
          /\ Get(calls[i].response.args, "action", None) = "RESET"
    /\ response_text = CLARIFICATION
    /\ design_context.template_uid = "tpl_sold"
    /\ design_context.modifications # <<>>

\* C9 (Spec).  Identifier sub-dialogue entry and diversion: a free-form turn
\* ends with the awaiting-identifier mode active exactly when its reply
\* contains the trigger phrase, and a turn taken while the mode is active
\* calls neither the oracle nor handle_ai_decision.
C9_SubDialogue ==
    [][(pc = "idle" /\ pc' = "ran") =>
          IF awaiting_mls_id
          THEN \A i \in 1..Len(calls') :
                   calls'[i].fn \notin {"generate_gemini_response",
                                        "handle_ai_decision"}
          ELSE awaiting_mls_id' <=> Contains(response_text', TRIGGER_PHRASE)]_vars

\* C9 witness: a free-form turn whose reply, the response_text of a handled
\* decision, contains the trigger phrase and activates the mode.
C9_Witness ==
    /\ Ran
    /\ CallsOf("handle_ai_decision") # {}
    /\ Contains(response_text, TRIGGER_PHRASE)
    /\ awaiting_mls_id
    /\ initial_request_prompt # NonePrompt

\* C10 (Spec).  Re-prompt without leaving the sub-dialogue: in
\* awaiting-identifier mode a turn whose text has no digit, or whose
\* identifier yields no listing, keeps the mode active and the design
\* context as it was, makes no render call, and appends the re-prompt after
\* the user message.
C10_Reprompt ==
    [][(/\ pc = "idle" /\ pc' = "ran" /\ awaiting_mls_id
        /\ \/ FindAllDigits(prompt') = <<>>
           \/ \E i \in 1..Len(calls') :
                 /\ calls'[i].fn = "fetch_listing_details"
                 /\ ~Truthy(calls'[i].listing_data))
       => /\ awaiting_mls_id'
          /\ design_context' = design_context
          /\ \A i \in 1..Len(calls') : calls'[i].fn # "create_image"
          /\ messages' = messages \o <<"user", "assistant">>
          /\ appended' =
                 <<UserMessage(prompt'),
                   AssistantMessage(
                       IF FindAllDigits(prompt') = <<>>
                       THEN NoDigitsText(prompt')
                       ELSE NotFoundText(FindAllDigits(prompt')[1]))>>]_vars

\* C10 witness: the identifier of an awaited turn yields no listing while a
\* design is in progress, and the turn re-prompts.
C10_Witness ==
    /\ Ran
    /\ awaiting_mls_id
    /\ \E i \in CallsOf("fetch_listing_details") : ~Truthy(calls[i].listing_data)
    /\ design_context.modifications # <<>>
    /\ Len(appended) = 2
    /\ appended[2] = AssistantMessage(NotFoundText(FindAllDigits(prompt)[1]))

\* C11 (SpecSubDialogue).  Declining the identifier: when the assistant has
\* asked for the MLS ID and the user's next message says they have none,
\* the reply of that turn is the oracle's CONVERSE reply and the
\* conversation is in free-form mode afterwards.
C11_Decline ==
    [][(/\ pc = "idle" /\ pc' = "ran" /\ awaiting_mls_id
        /\ prompt' \in DecliningPrompts)
       => /\ \E i \in 1..Len(calls') :
                /\ calls'[i].fn = "generate_gemini_response"
                /\ calls'[i].response.kind = "function_call"
                /\ Get(calls'[i].response.args, "action", None) = "CONVERSE"
                /\ response_text' = calls'[i].response.args.response_text
          /\ ~awaiting_mls_id']_vars

\* C12 (Spec), as the code has it.  Ownership of template_uid: the value of
\* design_context.template_uid changes only in a turn that applies a MODIFY
\* or a RESET decision, or in an identifier-collection turn that selects a
\* template (and then it becomes that template's uid).
C12_TemplateOwnership ==
    [][design_context'.template_uid # design_context.template_uid
       => \/ \E i \in 1..Len(calls') :
                /\ calls'[i].fn = "handle_ai_decision"
                /\ Get(calls'[i].decision, "action", None) \in {"MODIFY", "RESET"}
          \/ /\ awaiting_mls_id /\ ~awaiting_mls_id'
             /\ \E i \in 1..Len(calls') :
                   /\ calls'[i].fn = "create_modifications_for_template"
                   /\ calls'[i].template_uid = design_context'.template_uid]_vars

\* C12 witness: an identifier-collection turn has selected a template, with
\* no decision applied in the turn.
C12_Witness ==
    /\ Ran
    /\ CallsOf("create_modifications_for_template") # {}
    /\ CallsOf("handle_ai_decision") = {}
    /\ ~awaiting_mls_id
    /\ design_context.template_uid = "tpl_listed"

\* C12 as stated: template_uid changes only in a turn that applies a MODIFY
\* or a RESET decision.
C12_OnlyModifyOrReset ==
    [][design_context'.template_uid # design_context.template_uid
       => \E i \in 1..Len(calls') :
             /\ calls'[i].fn = "handle_ai_decision"
             /\ Get(calls'[i].decision, "action", None) \in {"MODIFY", "RESET"}]_vars

\* C13 (SpecSelect).  Best-template selection: over the candidates in
\* catalog order, the selected template is the first whose modification
\* list has the maximum length (lengths 2, 5, 5, 1 select the second), and
\* the design context stores exactly that template's mapper output.
\* Nothing is selected when no list has an entry.
C13_BestTemplate ==
    pc = "selected" =>
    LET n == Len(calls)
        LenOf(i) == IF calls[i].mods.none THEN 0 ELSE Len(calls[i].mods.list)
        IsMax(i) == \A j \in 1..n : LenOf(j) <= LenOf(i)
    IN  IF \A i \in 1..n : LenOf(i) = 0
        THEN design_context = EmptyContext /\ awaiting_mls_id
        ELSE \E k \in 1..n :
                /\ IsMax(k)
                /\ \A j \in 1..(k - 1) : ~IsMax(j)
                /\ design_context.template_uid = calls[k].template_uid
                /\ design_context.modifications = calls[k].mods.list
                /\ ~awaiting_mls_id

\* C13 witness: mapper outputs of lengths 2, 5, 5, 1 and the second
\* candidate selected with its own five modifications.
C13_Witness ==
    /\ pc = "selected"
    /\ calls = MappingLog(<<MapperOutput("tpl_a", 2), MapperOutput("tpl_b", 5),
                            MapperOutput("tpl_c", 5), MapperOutput("tpl_d", 1)>>)
    /\ design_context.template_uid = "tpl_b"
    /\ design_context.modifications = MapperOutput("tpl_b", 5).list

\* C14 (Spec).  Mapper safety: create_modifications_for_template never
\* returns a modification whose name is absent from the layer set of the
\* template it was called for (names compared without regard to case).
C14_MapperSafety ==
    \A i \in CallsOf("create_modifications_for_template") :
        LET template == CHOOSE t \in {rich_templates_data[k] :
                                         k \in 1..Len(rich_templates_data)} :
                            t.uid = calls[i].template_uid
            layers == {Lower(template.elements[k].name) :
                          k \in 1..Len(template.elements)}
            returned == calls[i].mods.list
        IN  \A k \in 1..Len(returned) : Lower(returned[k].name) \in layers

\* What a script run displays on its failure paths: the message the code
\* has for each failure, and something for every chat input.
ShowsFailureMessage ==
    LET last == IF shown = <<>> THEN <<>> ELSE shown[Len(shown)]
    IN  /\ \A i \in CallsOf("generate_gemini_response") :
              LET response == calls[i].response
              IN  /\ response.kind \in {"None", "no_candidates", "empty_part"}
                         => last = TROUBLE
                  /\ (/\ response.kind = "function_call"
                      /\ Get(response.args, "action", None)
                            \notin {"MODIFY", "GENERATE", "RESET", "CONVERSE"})
                         => last = Get(response.args, "response_text",
                                       DEFAULT_RESPONSE)
        /\ \A i \in CallsOf("upload_image_to_freeimage") :
              ~Truthy(calls[i].image_url)
                  => shown = <<UPLOAD_FAILED, SOMETHING_WRONG>>
        /\ \A i \in CallsOf("fetch_listing_details") :
              (~Truthy(calls[i].listing_data) \/ calls[i].listing_data = FETCH_RAISES)
                  => shown = <<NotFoundText(calls[i].mls_id)>>
        /\ (CallsOf("create_modifications_for_template") # {} /\ awaiting_mls_id)
              => last = NO_TEMPLATE
        /\ \A i \in CallsOf("create_image") :
              RenderFailed(i) => last \in {ERR_START, ERR_RENDER, ERR_IMAGE}
        /\ prompt # <<>>
              => shown # <<>> /\ \A k \in 1..Len(shown) : shown[k] # <<>>

\* The same over the script runs that reach their end.
ShowsFailureMessageWhenCompleted == Ran => ShowsFailureMessage

\* C15 (SpecSubDialogue).  No silent failures: a turn in which the oracle
\* returns nothing or a malformed result, the image upload fails, the listing
\* fetch fails, no template can be selected, the render submission is
\* rejected or the render polling fails, displays a message to the user, and
\* the message is the one the code has for that failure.  Violated: a listing
\* service answer that makes fetch_listing_details raise ends the run with
\* nothing displayed.
C15_NoSilentFailure ==
    pc \in {"ran", "crashed"} => ShowsFailureMessage

\* C16 (Spec).  Image upload failure degrades gracefully: in a free-form
\* turn whose staged image fails to upload, the oracle is still called with
\* the user's text without image context, and the reply is what comes of
\* its answer.
C16_UploadFailureDegrades ==
    Ran =>
    \A i \in CallsOf("upload_image_to_freeimage") :
        ~Truthy(calls[i].image_url)
            => /\ \E j \in CallsOf("generate_gemini_response") :
                     calls[j].user_prompt = TextPrompt(prompt)
               /\ response_text # SOMETHING_WRONG

\* C17 (Spec).  Oracle contract violation is absorbed: whatever the oracle
\* returns in a free-form turn, the turn runs to its end with exactly one
\* assistant reply appended, and when the output is not a MODIFY or RESET
\* decision the design context is as the turn found it.
C17_OracleAbsorbed ==
    pc \in {"ran", "crashed"} =>
    \A i \in CallsOf("generate_gemini_response") :
        /\ pc = "ran"
        /\ Len(appended) = 2
        /\ appended[2] = AssistantMessage(response_text)
        /\ (\/ calls[i].response.kind # "function_call"
            \/ Get(calls[i].response.args, "action", None)
                  \notin {"MODIFY", "RESET"})
              => design_context = calls[i].current_design_context

\* C18 (Spec).  Reply composition when generation runs: when a decision
\* triggers generation with the template set, create_image receives the
\* full current modification list, and the reply is the decision's
\* response_text with the result appended to it, the image reference or an
\* error message, the response_text being kept in both cases.
C18_ReplyComposition ==
    Ran =>
    \A h \in CallsOf("handle_ai_decision") :
    \A i \in CallsOf("create_image") :
        LET text == Get(calls[h].decision, "response_text", DEFAULT_RESPONSE)
        IN  /\ calls[i].template_uid = design_context.template_uid
            /\ calls[i].modifications = design_context.modifications
            /\ Len(response_text) > Len(text)
            /\ SubSeq(response_text, 1, Len(text)) = text

\* C19 (SpecRenderFailures).  Distinct render failure signals: at each
\* render site, the decision router and the identifier pipeline, what a
\* rejected create request produces differs from what a polling that ends
\* without an image produces.
C19_DistinctSignals ==
    \A site \in RenderSites :
        pc = <<"both_failed", site>> => shown[1] # shown[2]

\* C20 (Spec).  Ask-or-render after selection: an identifier-collection
\* turn that selects a template calls the render service exactly when no
\* text layer of the template is left without a modification (names
\* compared without regard to case); otherwise it makes no render call and
\* its reply asks for exactly the missing layer names, in template order.
C20_AskOrRender ==
    (Ran /\ CallsOf("create_modifications_for_template") # {} /\ ~awaiting_mls_id)
    =>
    LET template == CHOOSE t \in {rich_templates_data[k] :
                                     k \in 1..Len(rich_templates_data)} :
                        t.uid = design_context.template_uid
        mods == design_context.modifications
        Unfilled(layer) ==
            /\ layer.type = "text"
            /\ \A k \in 1..Len(mods) : Lower(mods[k].name) # Lower(layer.name)
        unfilled == SelectSeq(template.elements, Unfilled)
        missing == [k \in 1..Len(unfilled) |-> unfilled[k].name]
        mls_id == calls[1].mls_id
    IN  /\ CallsOf("create_image") # {} <=> missing = <<>>
        /\ missing # <<>>
              => /\ response_text = GreatText(mls_id) \o AskMissingText(missing)
                 /\ appended = <<UserMessage(prompt),
                                 AssistantMessage(response_text)>>

\* C20 witness: the selected template lacks its price, so the turn asks for
\* it and does not render.
C20_Witness ==
    /\ Ran
    /\ CallsOf("create_modifications_for_template") # {}
    /\ ~awaiting_mls_id
    /\ design_context.template_uid = "tpl_sold"
    /\ response_text = GreatText(calls[1].mls_id) \o AskMissingText(<<PRICE>>)
    /\ NoRenderCall

\* the layers of the selected template that missing-field detection is to
\* report, by position: the layers of type text whose lower-cased name is
\* the lower-cased name of no modification
UnfilledTextLayers ==
    LET elements == MissingTemplate(design_context.template_uid).elements
        mods == design_context.modifications
    IN  {k \in 1..Len(elements) :
            /\ elements[k].type = "text"
            /\ \A i \in 1..Len(mods) :
                  Lower(mods[i].name) # Lower(elements[k].name)}

\* C21 (SpecMissing).  Missing-field detection: for the selected template
\* and its modifications, the fields asked for are exactly the layers of
\* type text whose name, compared without regard to case, is the name of no
\* modification, in template order; a layer of another type is never asked
\* for; and when there is none the turn goes on to render.
C21_MissingFields ==
    pc \in {"asked", "rendering"} =>
    LET elements == MissingTemplate(design_context.template_uid).elements
        n == Cardinality(UnfilledTextLayers)
        expected == [i \in 1..n |-> elements[NthSmallest(UnfilledTextLayers, i)].name]
        great == GreatText(FindAllDigits(prompt)[1])
    IN  /\ pc = "asked" <=> UnfilledTextLayers # {}
        /\ pc = "asked" => response_text = great \o AskMissingText(expected)
        /\ pc = "rendering" => response_text = great \o ALL_FOUND
        /\ \A k \in 1..Len(elements) :
              (/\ elements[k].type # "text"
               /\ \A j \in 1..Len(elements) :
                     elements[j].type = "text" => elements[j].name # elements[k].name)
              => ~Substring(MissingListStr(<<elements[k].name>>), response_text)

\* C21 witness: text layers address, price and bedrooms beside an image
\* layer, modifications for address and price: exactly bedrooms is asked for.
C21_Witness ==
    /\ pc = "asked"
    /\ design_context.template_uid = "tpl_m1"
    /\ NamesOf(design_context.modifications) = {ADDRESS, PRICE}
    /\ response_text = GreatText(FindAllDigits(prompt)[1])
                           \o AskMissingText(<<BEDROOMS>>)

\* C22 (SpecExtract).  Identifier extraction: a turn calls the Listing Data
\* Fetcher at most once, and only in awaiting-identifier mode on a text that
\* holds a digit; it then calls it, and the identifier it passes is the
\* first maximal run of digits of the text: the digits from the first digit
\* of the text up to the character before the next non-digit.
C22_Extraction ==
    [][(pc = "idle" /\ pc' # "idle" /\ prompt' # <<>>)
       => LET p == prompt'
              fetches == {i \in 1..Len(calls') :
                            calls'[i].fn = "fetch_listing_details"}
              HasDigit == \E k \in 1..Len(p) : p[k] \in DIGITS
              IsFirstRun(id) ==
                  \E a \in 1..Len(p) : \E b \in a..Len(p) :
                      /\ \A k \in 1..(a - 1) : p[k] \notin DIGITS
                      /\ \A k \in a..b : p[k] \in DIGITS
                      /\ (b = Len(p) \/ p[b + 1] \notin DIGITS)
                      /\ id = SubSeq(p, a, b)
          IN  /\ Cardinality(fetches) <= 1
              /\ fetches # {} <=> (awaiting_mls_id /\ HasDigit)
              /\ \A i \in fetches : IsFirstRun(calls'[i].mls_id)]_vars

\* C22 witness: the answer "MLS#12a345" in awaiting-identifier mode; the
\* fetcher was called once, with "12".
C22_Witness ==
    /\ Ran
    /\ prompt = P_BROKEN_RUN
    /\ Cardinality(CallsOf("fetch_listing_details")) = 1
    /\ \A i \in CallsOf("fetch_listing_details") : calls[i].mls_id = <<"1", "2">>

\* C23 (Spec).  At every turn boundary awaiting_mls_id is True exactly when
\* initial_request_prompt is set: a turn that enters the sub-dialogue stores
\* the prompt it handed to the oracle (the user's text, with the image
\* context when an image was uploaded), and a turn that leaves it clears
\* the stored prompt.
C23_ModeAndPrompt ==
    /\ [](awaiting_mls_id <=> initial_request_prompt # NonePrompt)
    /\ [][/\ (~awaiting_mls_id /\ awaiting_mls_id')
               => /\ initial_request_prompt'.text = prompt'
                  /\ \E i \in 1..Len(calls') :
                        /\ calls'[i].fn = "generate_gemini_response"
                        /\ calls'[i].user_prompt = initial_request_prompt'
          /\ (awaiting_mls_id /\ ~awaiting_mls_id')
               => initial_request_prompt' = NonePrompt
          /\ (awaiting_mls_id /\ awaiting_mls_id')
               => initial_request_prompt' = initial_request_prompt]_vars

\* C23 witness: the sub-dialogue was entered by a turn that uploaded an
\* image, then a turn re-prompted, and the stored prompt is still the one
\* with the image context.
C23_Witness ==
    /\ Ran
    /\ awaiting_mls_id
    /\ initial_request_prompt.kind = "image_context"
    /\ CallsOf("fetch_listing_details") # {}

\* C24 (Spec).  The conversation history is append-only, and every user
\* turn that is processed to its end, on every path, appends the user
\* message followed by at least one assistant message, so that no turn ends
\* with a user message as the last entry of the history.
C24_HistoryReplies ==
    [][(pc = "idle" /\ pc' = "ran" /\ prompt' # <<>>)
       => /\ Len(messages') >= Len(messages) + 2
          /\ SubSeq(messages', 1, Len(messages)) = messages
          /\ messages'[Len(messages) + 1] = "user"
          /\ \A i \in (Len(messages) + 2)..Len(messages') :
                messages'[i] = "assistant"
          /\ messages'[Len(messages')] = "assistant"]_vars

\* C25 (Spec).  Once template_uid is set, it becomes unset again only in a
\* turn that applies a RESET decision, which the guardrail has then not
\* overridden: a MODIFY decision without a template_uid, GENERATE, CONVERSE,
\* a render failure and an identifier-collection turn leave it set.
C25_UnsetOnlyByReset ==
    [][(Truthy(design_context.template_uid)
        /\ ~Truthy(design_context'.template_uid))
       => /\ ~awaiting_mls_id
          /\ \E i \in 1..Len(calls') :
                /\ calls'[i].fn = "handle_ai_decision"
                /\ Get(calls'[i].decision, "action", None) = "RESET"
          /\ ~(IsGibberish(prompt') \/ IsShortConvo(prompt'))
          /\ design_context' = EmptyContext]_vars

\* C25 witness: a RESET decision was applied on a prompt the guardrail lets
\* through while a template was set, and the template is unset now.
C25_Witness ==
    /\ Ran
    /\ design_context.template_uid = None
    /\ \E i \in CallsOf("handle_ai_decision") :
          /\ ActionOf(calls[i]) = "RESET"
          /\ Truthy(calls[i].design_context.template_uid)

\* C26 (Spec).  An identifier-collection turn in which the listing is found
\* but every mapper call returns None or an empty list selects no template:
\* the design context and the stored prompt are as before, no render call
\* is made, and the awaiting-identifier mode stays active.  The
\* sub-dialogue is left only in a turn that selects a template, one whose
\* mapper call returned a non-empty list.
C26_NoTemplateNoChange ==
    [][(pc = "idle" /\ pc' = "ran" /\ awaiting_mls_id)
       => LET mappings == {i \in 1..Len(calls') :
                             calls'[i].fn = "create_modifications_for_template"}
              Empty(i) == calls'[i].mods.none \/ calls'[i].mods.list = <<>>
          IN  /\ (mappings # {} /\ \A i \in mappings : Empty(i))
                    => /\ design_context' = design_context
                       /\ initial_request_prompt' = initial_request_prompt
                       /\ awaiting_mls_id'
                       /\ \A i \in 1..Len(calls') : calls'[i].fn # "create_image"
              /\ ~awaiting_mls_id'
                    => \E i \in mappings :
                          /\ ~Empty(i)
                          /\ design_context' =
                                 [template_uid |-> calls'[i].template_uid,
                                  modifications |-> calls'[i].mods.list]]_vars

\* C26 witness: with a design in progress, the listing was found and the
\* mapper returned None for one candidate and an empty list for another;
\* the turn ended in awaiting-identifier mode with the design as it was.
C26_Witness ==
    /\ Ran
    /\ awaiting_mls_id
    /\ \E i \in CallsOf("fetch_listing_details") : Truthy(calls[i].listing_data)
    /\ \E i, j \in CallsOf("create_modifications_for_template") :
          calls[i].mods = NoneList /\ calls[j].mods = SomeList(<<>>)
    /\ \A i \in CallsOf("create_modifications_for_template") :
          calls[i].mods.list = <<>>
    /\ design_context.modifications # <<>>
    /\ NoRenderCall

=============================================================================
